---------------------------- MODULE Spec2Model ----------------------------
(***************************************************************************)
(* Model of pos_next: the two-step invoice flow of api/invoices.py         *)
(* (update_invoice, submit_invoice and the Offline Invoice Sync            *)
(* reservation) and the payment-entry flow of api/partial_payments.py.     *)
(*                                                                         *)
(* Modelling decisions                                                     *)
(*  - Every document save/insert of the code is a write to the shared      *)
(*    database that other requests can read at once; this is the view the  *)
(*    code itself takes (it marks rows Pending/Failed for other requests   *)
(*    to see).                                                             *)
(*  - get_value(..., for_update=True) takes the row lock of the sync row;  *)
(*    a request also holds the lock of a row it inserted or wrote.  Locks  *)
(*    are released when the request's transaction ends: at the explicit    *)
(*    frappe.db.commit() of increment_coupon_usage, or when the request    *)
(*    returns or raises.  A request that needs a row locked by another     *)
(*    request waits.                                                       *)
(*  - Time is the wall clock in minutes (now); nothing in the code bounds  *)
(*    how long a request takes.                                            *)
(*  - Calls the code wraps in try/except (saving the sync row, cancelling  *)
(*    a Payment Entry) may raise; the handler of the code is modelled.     *)
(***************************************************************************)
EXTENDS Integers, Sequences, FiniteSets, TLC

\* ------------------------------------------------------------------ bounds
NumReq == 2            \* concurrent submit_invoice requests (workers)
NumOfflineIds == 1     \* distinct client offline_id tokens
MaxInvoices == 2       \* Sales Invoice documents ever created
MaxTime == 6           \* the clock stops advancing here
TickStep == 3          \* minutes per clock step
MaxCouponUsed == 2     \* cap of the coupon usage counter
MaxOutstanding == 2    \* outstanding amount of the invoice being paid
MaxPayments == 2       \* payments in one add_payment_to_partial_invoice call
MaxPaymentEntries == 3 \* Payment Entry documents ever created
MaxLines == 2          \* item lines of one invoice or return request
MaxQty == 2            \* quantity on one item line
MaxReturns == 1        \* return invoices booked against the original

\* ------------------------------------------------------- program constants
PENDING_TIMEOUT_MINUTES == 5
\* amounts are counted in units of 0.01, the value of AMOUNT_TOLERANCE
AMOUNT_TOLERANCE == 1

Requests == 1..NumReq
OfflineIds == 1..NumOfflineIds
AllOfflineIds == {0} \cup OfflineIds    \* 0: the invoice carries no offline_id
None == 0 - 1          \* Python None for timestamps

\* ------------------------------------------------------------ master data
\* POS Profiles: posa_block_sale_beyond_available_qty, and the
\* allow_negative_stock of the POS Settings document of the profile.
Profiles == {"P_ON", "P_OFF", "P_NEG"}
posa_block_sale_beyond_available_qty(p) == IF p = "P_OFF" THEN 0 ELSE 1
\* (read from the POS Settings table, declared below)
\* Bin.actual_qty of the one stock item
AvailableQty == 1
\* quantities a client requests of it: within stock, beyond stock
Qtys == {AvailableQty, AvailableQty + 1}
\* the one POS Coupon "OK": coupon.maximum_use
CouponMaximumUse == 1

VARIABLES
    now,             \* frappe.utils.now_datetime(), minutes
    syncRows,        \* table Offline Invoice Sync; a row's name is its index
    invoices,        \* table Sales Invoice; an invoice's name is its index
    coupon_used,     \* POS Coupon "OK": field used
    credit_redeemed, \* invoices for which redeem_customer_credit created entries
    stock_allow_negative, \* Stock Settings.allow_negative_stock
    req,             \* the submit_invoice requests in flight
    outstanding,     \* Sales Invoice.outstanding_amount of the invoice being paid
    paymentEntries,  \* table Payment Entry
    pay_call,        \* last add_payment_to_partial_invoice call
    pos_settings,    \* table POS Settings, one document per POS Profile
    settings_call,   \* last save of a POS Settings document
    return_data,     \* an original invoice, its returns and a return request
    return_result,   \* what validate_return_items answered for return_data
    delete_call,     \* last delete_invoice call
    dedup_call       \* what the last deduplication check saw and decided

vars == <<now, syncRows, invoices, coupon_used, credit_redeemed,
          stock_allow_negative, req, outstanding, paymentEntries, pay_call,
          pos_settings, settings_call, return_data, return_result,
          delete_call, dedup_call>>

invVars == <<now, syncRows, invoices, coupon_used, credit_redeemed,
             stock_allow_negative, req>>
payVars == <<outstanding, paymentEntries, pay_call>>
docVars == <<pos_settings, settings_call, return_data, return_result,
            delete_call>>
extVars == <<docVars, dedup_call>>

\* frappe.db.get_value("POS Settings", {"pos_profile": p}, "allow_negative_stock")
pos_settings_allow_negative_stock(p) == pos_settings[p].allow_negative_stock

\* ---------------------------------------------------------------- helpers
cint(x) == x
PyOr(a, b) == IF a # 0 THEN a ELSE b     \* Python "a or b" on integers

IdleReq == [pc |-> "idle", offline_id |-> 0, name |-> 0,
            coupon_code |-> "none", credit |-> "none", pos_profile |-> "",
            qty |-> 1, sync_record_name |-> 0, invoice_name |-> 0,
            invoice_submitted |-> FALSE, error |-> "none",
            coupon_done |-> FALSE, coupon_failed |-> FALSE,
            credit_done |-> FALSE, credit_failed |-> FALSE,
            duplicate_entry |-> FALSE]

\* rows of Offline Invoice Sync with the given offline_id
SyncRowsOf(oid) == {i \in DOMAIN syncRows : syncRows[i].offline_id = oid}

\* frappe.db.get_value("Offline Invoice Sync", {"offline_id": offline_id}, ...)
\* returns the first matching row, 0 when there is none
GetSyncByOfflineId(oid) ==
    IF SyncRowsOf(oid) = {} THEN 0
    ELSE CHOOSE i \in SyncRowsOf(oid) : \A j \in SyncRowsOf(oid) : i <= j

\* end of the request's transaction: its row locks are released
ReleaseLocks(rows, r) ==
    [i \in DOMAIN rows |->
        IF rows[i].lock = r THEN [rows[i] EXCEPT !.lock = 0] ELSE rows[i]]

\* the row is not locked by another request
CanLock(i, r) == syncRows[i].lock \in {0, r}

frappe_db_exists_invoice(n) == n \in DOMAIN invoices /\ invoices[n].exists

\* every row counts as expired / no row does (used to show that the age
\* of the Pending row decides)
always_expired(modified_time) == TRUE
never_expired(modified_time) == FALSE

_is_pending_expired(modified_time) ==
    IF modified_time = None THEN TRUE
    ELSE (now - modified_time) > PENDING_TIMEOUT_MINUTES

\* _reuse_sync_record: status Pending, synced_at None, save (modified = now)
_reuse_sync_record(rows, i, r) ==
    [rows EXCEPT ![i] = [@ EXCEPT !.status = "Pending", !.synced_at = None,
                                  !.modified = now, !.lock = r]]


\* ------------------------------------------------------------ stock checks
\* _collect_stock_errors for the one stock line of the invoice:
\* negative quantities are skipped, requested > available is an error
_collect_stock_errors(qty) ==
    IF qty < 0 THEN {} ELSE IF qty > AvailableQty THEN {qty} ELSE {}

\* _should_block(pos_profile)
_should_block(pos_profile) ==
    LET allow_negative == cint(PyOr(stock_allow_negative, 0)) IN
    IF allow_negative # 0 THEN FALSE
    ELSE IF pos_profile # "" THEN
        IF cint(PyOr(pos_settings_allow_negative_stock(pos_profile), 0)) # 0
        THEN FALSE
        ELSE LET block_sale ==
                   cint(PyOr(posa_block_sale_beyond_available_qty(pos_profile), 1))
             IN block_sale # 0
    ELSE TRUE

\* _validate_stock_on_invoice raises (TRUE) or returns (FALSE);
\* submit_invoice has set update_stock = 1 on the Sales Invoice
_validate_stock_on_invoice(pos_profile, qty) ==
    _collect_stock_errors(qty) # {} /\ _should_block(pos_profile)

\* submit_invoice lines 895-908: does stock validation raise?
StockValidationRaises(pos_profile, qty) ==
    LET allow == IF pos_profile # ""
                 THEN cint(PyOr(pos_settings_allow_negative_stock(pos_profile), 0))
                 ELSE 0
    IN IF allow = 0 THEN _validate_stock_on_invoice(pos_profile, qty) ELSE FALSE

\* ----------------------------------------------------------------- coupons
\* check_coupon_code: valid?
check_coupon_code(coupon_code) ==
    IF coupon_code # "OK" THEN FALSE          \* coupon does not exist
    ELSE ~(coupon_used # 0 /\ CouponMaximumUse # 0
           /\ coupon_used >= CouponMaximumUse)

\* increment_coupon_usage: the new counter; get_doc raises for an unknown
\* coupon and the exception is logged, not raised
increment_coupon_usage(coupon_code) ==
    IF coupon_code = "OK" THEN coupon_used + 1 ELSE coupon_used

\* --------------------------------------------------------- update_invoice
\* update_invoice(data): outcome "ok" or "error", and the Sales Invoice table
\* after it.  data.name = 0 creates a document, otherwise the named one is
\* loaded and updated; the document is saved with docstatus 0.
update_invoice_keeps_docstatus(docstatus_in) == docstatus_in

\* line 522: invoice_doc.docstatus = 0
update_invoice_docstatus(docstatus_in) == 0

update_invoice(name, docstatus_in, coupon_code, oid) ==
    IF name # 0 /\ ~frappe_db_exists_invoice(name)
    THEN [outcome |-> "error", table |-> invoices, name |-> 0]
    ELSE IF coupon_code # "none" /\ ~check_coupon_code(coupon_code)
    THEN [outcome |-> "error", table |-> invoices, name |-> 0]
    ELSE IF name = 0
    THEN [outcome |-> "ok",
          table |-> Append(invoices,
                      [docstatus |-> update_invoice_docstatus(docstatus_in),
                       offline_id |-> oid, exists |-> TRUE]),
          name |-> Len(invoices) + 1]
    ELSE IF invoices[name].docstatus # update_invoice_docstatus(docstatus_in)
    \* Document.save rejects a docstatus transition of a submitted or
    \* cancelled document
    THEN [outcome |-> "error", table |-> invoices, name |-> 0]
    ELSE [outcome |-> "ok", table |-> invoices, name |-> name]


\* ------------------------------------------------------------------- Init
NoSettingsCall == [name |-> "", allow_negative_stock |-> 0, stock_before |-> 0]
NoReturnData == [original |-> <<>>, returned |-> <<>>, return_items |-> <<>>]
NoDeleteCall == [invoice |-> 0, docstatus |-> 0, outcome |-> "none"]
NoDedupCall == [request |-> 0, row |-> 0, status |-> "none", expired |-> FALSE,
                next |-> "none", invoice |-> 0]

\* the POS Settings documents of the profiles; no POS Settings saved and no
\* return validated yet
InitExt ==
    /\ pos_settings = [p \in Profiles |->
                         [allow_negative_stock |-> IF p = "P_NEG" THEN 1 ELSE 0,
                          enabled |-> 1]]
    /\ settings_call = NoSettingsCall
    /\ return_data = NoReturnData
    /\ return_result = "none"
    /\ delete_call = NoDeleteCall
    /\ dedup_call = NoDedupCall

InitSeq ==
    /\ now = 0
    /\ syncRows = <<>>
    /\ invoices = <<>>
    /\ coupon_used = 0
    /\ credit_redeemed = {}
    /\ stock_allow_negative \in {0, 1}
    /\ req = [r \in Requests |-> IdleReq]
    /\ outstanding = 0
    /\ paymentEntries = <<>>
    /\ pay_call = [state |-> "none", created |-> <<>>, total |-> 0,
                   outstanding_amount |-> 0]
    /\ InitExt

\* the site of the concurrent clients does not allow negative stock
Init == InitSeq /\ stock_allow_negative = 0

\* invoices that requests in flight are still going to create
DraftsToCome == Cardinality({r \in Requests :
                    req[r].pc \in {"dedup", "insert", "draft"} /\ req[r].name = 0})
\* coupon increments that requests in flight are still going to make
CouponsToCome == Cardinality({r \in Requests :
                    req[r].pc \in {"dedup", "insert", "draft", "coupon"}
                    /\ req[r].coupon_code = "OK"})

\* the clock advances
Tick ==
    /\ now + TickStep <= MaxTime
    /\ now' = now + TickStep
    /\ UNCHANGED <<syncRows, invoices, coupon_used, credit_redeemed,
                   stock_allow_negative, req>>
    /\ UNCHANGED <<payVars, extVars>>

\* the clock advances by one minute: the grain at which a row is seen at
\* exactly PENDING_TIMEOUT_MINUTES
TickMinute ==
    /\ now + 1 <= MaxTime
    /\ now' = now + 1
    /\ UNCHANGED <<syncRows, invoices, coupon_used, credit_redeemed,
                   stock_allow_negative, req>>
    /\ UNCHANGED <<payVars, extVars>>

\* ----------------------------------------------------------- submit_invoice
\* a client calls submit_invoice(invoice, data); lines 749-802
SubmitInvoiceCall(r, oids, coupons, credits, profiles, qtys) ==
    /\ req[r].pc = "idle"
    /\ \E oid \in oids, name \in {0} \cup DOMAIN invoices, cc \in coupons,
          cr \in credits, pp \in profiles, q \in qtys :
        /\ name = 0 => Len(invoices) + DraftsToCome < MaxInvoices
        /\ name # 0 => invoices[name].docstatus = 0 /\ invoices[name].exists
        /\ cc = "OK" => coupon_used + CouponsToCome < MaxCouponUsed
        /\ req' = [req EXCEPT ![r] =
                     [IdleReq EXCEPT !.pc = "dedup", !.offline_id = oid,
                                     !.name = name, !.coupon_code = cc,
                                     !.credit = cr, !.pos_profile = pp,
                                     !.qty = q]]
    /\ UNCHANGED <<now, syncRows, invoices, coupon_used, credit_redeemed,
                   stock_allow_negative>>
    /\ UNCHANGED <<payVars, extVars>>

\* no Synced row has a valid invoice (used to show that the check of lines
\* 606-609 decides)
no_invoice_valid(sales_invoice) == FALSE

\* lines 606-609: the row names a Sales Invoice that exists with docstatus 1
synced_invoice_valid(sales_invoice) ==
    /\ sales_invoice # 0
    /\ frappe_db_exists_invoice(sales_invoice)
    /\ invoices[sales_invoice].docstatus = 1

\* _handle_offline_deduplication, lines 576-631: the locking read of the
\* sync row and the decision taken on it.  Result: what the request does
\* next and the table after it.
_handle_offline_deduplication(r, i) ==
    LET row == syncRows[i] IN
    IF row.status = "Pending" THEN
        IF _is_pending_expired(row.modified)
        THEN [next |-> "draft", rows |-> _reuse_sync_record(syncRows, i, r)]
        ELSE [next |-> "SYNC_IN_PROGRESS", rows |-> syncRows]
    ELSE IF row.status = "Failed"
    THEN [next |-> "draft", rows |-> _reuse_sync_record(syncRows, i, r)]
    ELSE IF row.status = "Synced" /\ synced_invoice_valid(row.sales_invoice)
    THEN [next |-> "already_synced", rows |-> syncRows]
    ELSE [next |-> "draft", rows |-> _reuse_sync_record(syncRows, i, r)]

\* submit_invoice lines 801-816 with _handle_offline_deduplication
DedupStep(r) ==
    /\ req[r].pc = "dedup"
    /\ LET oid == req[r].offline_id
           i == GetSyncByOfflineId(oid) IN
       IF oid = 0 THEN
           /\ req' = [req EXCEPT ![r].pc = "draft"]
           /\ UNCHANGED syncRows
       ELSE IF i = 0 THEN
           \* no existing record: go on to create the reservation
           /\ req' = [req EXCEPT ![r].pc = "insert"]
           /\ UNCHANGED syncRows
       ELSE
           /\ CanLock(i, r)
           /\ LET d == _handle_offline_deduplication(r, i) IN
              IF d.next = "draft" THEN
                  /\ syncRows' = d.rows
                  /\ req' = [req EXCEPT ![r].pc = "draft",
                                        ![r].sync_record_name = i]
              ELSE
                  \* SYNC_IN_PROGRESS is raised outside the try block, and
                  \* already_synced returns the existing invoice: the request ends
                  /\ syncRows' = ReleaseLocks(d.rows, r)
                  /\ req' = [req EXCEPT ![r] = IdleReq]
    /\ UNCHANGED <<now, invoices, coupon_used, credit_redeemed,
                   stock_allow_negative>>
    /\ UNCHANGED <<payVars, docVars>>

Dedup(r) == DedupStep(r) /\ UNCHANGED dedup_call

\* what the deduplication check of request r sees in the sync row it reads
\* and what it decides; invoice is the Sales Invoice whose details are
\* returned with duplicate_prevented
dedup_observation(r) ==
    LET oid == req[r].offline_id
        i == GetSyncByOfflineId(oid) IN
    IF oid = 0 \/ i = 0
    THEN [NoDedupCall EXCEPT !.request = r]
    ELSE LET d == _handle_offline_deduplication(r, i) IN
         [request |-> r, row |-> i, status |-> syncRows[i].status,
          expired |-> _is_pending_expired(syncRows[i].modified),
          next |-> d.next,
          invoice |-> IF d.next = "already_synced"
                      THEN syncRows[i].sales_invoice ELSE 0]

\* the deduplication check, with its decision recorded
DedupObserved(r) == DedupStep(r) /\ dedup_call' = dedup_observation(r)

\* the unique key of Offline Invoice Sync: inserting a second row with the
\* offline_id of an existing one raises frappe.DuplicateEntryError
NoUniqueKey(rows, oid) == FALSE

DuplicateEntry(rows, oid) == \E i \in DOMAIN rows : rows[i].offline_id = oid

\* pending_sync.insert(): the table after the insert, or "duplicate" when
\* the insert raises frappe.DuplicateEntryError
InsertPendingSync(rows, oid, r) ==
    IF DuplicateEntry(rows, oid)
    THEN [outcome |-> "duplicate", rows |-> rows]
    ELSE [outcome |-> "ok",
          rows |-> Append(rows, [offline_id |-> oid, sales_invoice |-> 0,
                                 status |-> "Pending", synced_at |-> None,
                                 modified |-> now, lock |-> r])]

\* _handle_offline_deduplication, lines 633-653
InsertPending(r) ==
    /\ req[r].pc = "insert"
    /\ LET ins == InsertPendingSync(syncRows, req[r].offline_id, r) IN
       IF ins.outcome = "duplicate" THEN
           \* another request just created the record: check again
           /\ req' = [req EXCEPT ![r].pc = "dedup", ![r].duplicate_entry = TRUE]
           /\ UNCHANGED syncRows
       ELSE
           /\ syncRows' = ins.rows
           /\ req' = [req EXCEPT ![r].pc = "draft",
                                 ![r].sync_record_name = Len(ins.rows)]
    /\ UNCHANGED <<now, invoices, coupon_used, credit_redeemed,
                   stock_allow_negative>>
    /\ UNCHANGED <<payVars, extVars>>

\* submit_invoice lines 821-876: get or create the invoice
GetOrCreate(r) ==
    /\ req[r].pc = "draft"
    /\ IF req[r].name = 0 \/ ~frappe_db_exists_invoice(req[r].name) THEN
           \E docstatus_in \in {0, 1} :
           LET created == update_invoice(0, docstatus_in,
                                         req[r].coupon_code, req[r].offline_id) IN
           IF created.outcome = "ok" THEN
               /\ invoices' = created.table
               /\ req' = [req EXCEPT ![r].pc = "coupon",
                                     ![r].invoice_name = created.name]
           ELSE
               /\ req' = [req EXCEPT ![r].pc = "cleanup", ![r].error = "draft"]
               /\ UNCHANGED invoices
       ELSE
           /\ req' = [req EXCEPT ![r].pc = "coupon",
                                 ![r].invoice_name = req[r].name]
           /\ UNCHANGED invoices
    /\ UNCHANGED <<now, syncRows, coupon_used, credit_redeemed,
                   stock_allow_negative>>
    /\ UNCHANGED <<payVars, extVars>>


\* submit_invoice lines 878-890: the coupon usage counter.  The exception of
\* a failed increment is logged, never raised.
coupon_side_effect(coupon_code) ==
    [raised |-> FALSE,
     failed |-> coupon_code \notin {"none", "OK"},
     done   |-> coupon_code = "OK",
     used   |-> increment_coupon_usage(coupon_code)]

Coupon(r) ==
    /\ req[r].pc = "coupon"
    /\ LET c == coupon_side_effect(req[r].coupon_code) IN
       /\ coupon_used' = c.used
       /\ IF c.raised
          THEN req' = [req EXCEPT ![r].pc = "cleanup", ![r].error = "coupon",
                                  ![r].coupon_failed = TRUE]
          ELSE req' = [req EXCEPT ![r].pc = "stock", ![r].coupon_done = c.done,
                                  ![r].coupon_failed = c.failed]
       \* increment_coupon_usage commits: the transaction's locks are released
       /\ syncRows' = IF c.done THEN ReleaseLocks(syncRows, r) ELSE syncRows
    /\ UNCHANGED <<now, invoices, credit_redeemed, stock_allow_negative>>
    /\ UNCHANGED <<payVars, extVars>>

\* submit_invoice lines 892-908
ValidateStock(r) ==
    /\ req[r].pc = "stock"
    /\ IF StockValidationRaises(req[r].pos_profile, req[r].qty)
       THEN req' = [req EXCEPT ![r].pc = "cleanup", ![r].error = "stock"]
       ELSE req' = [req EXCEPT ![r].pc = "submit"]
    /\ UNCHANGED <<now, syncRows, invoices, coupon_used, credit_redeemed,
                   stock_allow_negative>>
    /\ UNCHANGED <<payVars, extVars>>

\* submit_invoice lines 910-917: invoice_doc.save(); invoice_doc.submit().
\* A document that is no longer a draft cannot be saved by this request.
SaveSubmit(r) ==
    /\ req[r].pc = "submit"
    /\ LET n == req[r].invoice_name IN
       IF frappe_db_exists_invoice(n) /\ invoices[n].docstatus = 0 THEN
           /\ invoices' = [invoices EXCEPT ![n].docstatus = 1,
                                           ![n].offline_id = req[r].offline_id]
           /\ req' = [req EXCEPT ![r].pc = "complete",
                                 ![r].invoice_submitted = TRUE]
       ELSE
           /\ req' = [req EXCEPT ![r].pc = "cleanup", ![r].error = "submit"]
           /\ UNCHANGED invoices
    /\ UNCHANGED <<now, syncRows, coupon_used, credit_redeemed,
                   stock_allow_negative>>
    /\ UNCHANGED <<payVars, extVars>>

\* _complete_offline_sync: the row after a successful save
_complete_offline_sync(rows, i, invoice_name, r) ==
    [rows EXCEPT ![i] = [@ EXCEPT !.sales_invoice = invoice_name,
                                  !.status = "Synced", !.synced_at = now,
                                  !.modified = now, !.lock = r]]

\* submit_invoice lines 919-921
CompleteSync(r) ==
    /\ req[r].pc = "complete"
    /\ LET i == req[r].sync_record_name IN
       IF i = 0 THEN UNCHANGED syncRows
       ELSE \/ /\ CanLock(i, r)
               /\ syncRows' = _complete_offline_sync(syncRows, i,
                                                     req[r].invoice_name, r)
            \* the save raises: the error is logged and the row is left as it is
            \/ UNCHANGED syncRows
    /\ req' = [req EXCEPT ![r].pc = "credit"]
    /\ UNCHANGED <<now, invoices, coupon_used, credit_redeemed,
                   stock_allow_negative>>
    /\ UNCHANGED <<payVars, extVars>>

\* submit_invoice lines 923-941: credit redemption.  redeem_customer_credit
\* raises for a credit source it cannot allocate; the error is logged.
credit_failure_raised(credit) ==
    [raised |-> credit = "bad", failed |-> credit = "bad", done |-> credit = "ok"]

credit_side_effect(credit) ==
    [raised |-> FALSE, failed |-> credit = "bad", done |-> credit = "ok"]

Credit(r) ==
    /\ req[r].pc = "credit"
    /\ LET c == credit_side_effect(req[r].credit) IN
       /\ credit_redeemed' = IF c.done
                             THEN credit_redeemed \cup {req[r].invoice_name}
                             ELSE credit_redeemed
       /\ IF c.raised
          THEN req' = [req EXCEPT ![r].pc = "cleanup", ![r].error = "credit",
                                  ![r].credit_failed = TRUE]
          ELSE req' = [req EXCEPT ![r].pc = "return", ![r].credit_done = c.done,
                                  ![r].credit_failed = c.failed]
    /\ UNCHANGED <<now, syncRows, invoices, coupon_used, stock_allow_negative>>
    /\ UNCHANGED <<payVars, extVars>>

\* submit_invoice lines 943-959: the invoice details are returned
Return(r) ==
    /\ req[r].pc = "return"
    /\ req' = [req EXCEPT ![r] = IdleReq]
    /\ syncRows' = ReleaseLocks(syncRows, r)
    /\ UNCHANGED <<now, invoices, coupon_used, credit_redeemed,
                   stock_allow_negative>>
    /\ UNCHANGED <<payVars, extVars>>

\* _cleanup_failed_sync: the row after a successful save
_cleanup_failed_sync(rows, i, r) ==
    [rows EXCEPT ![i] = [@ EXCEPT !.status = "Failed", !.synced_at = now,
                                  !.modified = now, !.lock = r]]

\* submit_invoice lines 961-968: the exception is re-raised, after the
\* finally block has marked the reservation
Cleanup(r) ==
    /\ req[r].pc = "cleanup"
    /\ LET i == req[r].sync_record_name IN
       IF i # 0 /\ ~req[r].invoice_submitted
       THEN \/ /\ CanLock(i, r)
               /\ syncRows' = ReleaseLocks(_cleanup_failed_sync(syncRows, i, r), r)
            \* the save raises: the error is logged and the row is left as it is
            \/ syncRows' = ReleaseLocks(syncRows, r)
       ELSE syncRows' = ReleaseLocks(syncRows, r)
    /\ req' = [req EXCEPT ![r] = IdleReq]
    /\ UNCHANGED <<now, invoices, coupon_used, credit_redeemed,
                   stock_allow_negative>>
    /\ UNCHANGED <<payVars, extVars>>

\* ------------------------------------------------- other invoice operations
\* the update_invoice endpoint (step 1 of the two-step flow)
UpdateInvoice ==
    /\ \E name \in {0} \cup DOMAIN invoices, docstatus_in \in {0, 1},
          cc \in {"none", "OK", "BAD"} :
        /\ name = 0 => Len(invoices) + DraftsToCome < MaxInvoices
        /\ LET u == update_invoice(name, docstatus_in, cc, 0) IN
           invoices' = u.table
    /\ UNCHANGED <<now, syncRows, coupon_used, credit_redeemed,
                   stock_allow_negative, req>>
    /\ UNCHANGED <<payVars, extVars>>

\* a submitted Sales Invoice is cancelled (document event before_cancel /
\* on_cancel of hooks.py)
CancelInvoice ==
    /\ \E n \in DOMAIN invoices :
        /\ invoices[n].docstatus = 1
        /\ invoices' = [invoices EXCEPT ![n].docstatus = 2]
    /\ UNCHANGED <<now, syncRows, coupon_used, credit_redeemed,
                   stock_allow_negative, req>>
    /\ UNCHANGED <<payVars, extVars>>

\* -------------------------------------------------------------------- Next
SubmitInvoiceStep(r) ==
    \/ Dedup(r)
    \/ InsertPending(r)
    \/ GetOrCreate(r)
    \/ Coupon(r)
    \/ ValidateStock(r)
    \/ SaveSubmit(r)
    \/ CompleteSync(r)
    \/ Credit(r)
    \/ Return(r)
    \/ Cleanup(r)

\* the steps of submit_invoice, the decision of the deduplication recorded
SubmitInvoiceStepObserved(r) ==
    \/ DedupObserved(r)
    \/ InsertPending(r)
    \/ GetOrCreate(r)
    \/ Coupon(r)
    \/ ValidateStock(r)
    \/ SaveSubmit(r)
    \/ CompleteSync(r)
    \/ Credit(r)
    \/ Return(r)
    \/ Cleanup(r)

\* requests of concurrent clients (retries, several tabs)
Next ==
    \/ Tick
    \/ \E r \in Requests :
          SubmitInvoiceCall(r, OfflineIds, {"none", "OK"}, {"none"},
                            {"P_ON"}, Qtys)
    \/ \E r \in Requests : SubmitInvoiceStep(r)
    \/ CancelInvoice

Spec == Init /\ [][Next]_vars

\* one client at a time, every kind of invoice
NoRequestInFlight == \A r \in Requests : req[r].pc = "idle"

NextSeq ==
    \/ /\ NoRequestInFlight
       /\ SubmitInvoiceCall(1, AllOfflineIds, {"none", "OK", "BAD"},
                            {"none", "ok", "bad"}, {""} \cup Profiles, Qtys)
    \/ SubmitInvoiceStep(1)
    \/ NoRequestInFlight /\ UpdateInvoice
    \/ NoRequestInFlight /\ CancelInvoice

SpecSeq == InitSeq /\ [][NextSeq]_vars

\* retries of concurrent clients, the decisions of the deduplication recorded
NextDedup ==
    \/ TickMinute
    \/ \E r \in Requests :
          SubmitInvoiceCall(r, OfflineIds, {"none", "OK"}, {"none"},
                            {"P_ON"}, Qtys)
    \/ \E r \in Requests : SubmitInvoiceStepObserved(r)
    \/ CancelInvoice

SpecDedup == Init /\ [][NextDedup]_vars

TypeOK ==
    /\ now \in 0..MaxTime
    /\ coupon_used \in 0..MaxCouponUsed
    /\ Len(invoices) <= MaxInvoices
    /\ \A r \in Requests : req[r].pc \in {"idle", "dedup", "insert", "draft",
            "coupon", "stock", "submit", "complete", "credit", "return",
            "cleanup"}


\* OfflineInvoiceSync.is_synced(offline_id)
is_synced(oid) ==
    LET existing == GetSyncByOfflineId(oid) IN
    IF oid = 0 THEN [synced |-> FALSE, sales_invoice |-> 0]
    ELSE IF existing # 0
    THEN [synced |-> TRUE, sales_invoice |-> syncRows[existing].sales_invoice]
    ELSE [synced |-> FALSE, sales_invoice |-> 0]

\* check_offline_invoice_synced(offline_id) of api/invoices.py
check_offline_invoice_synced(oid) ==
    LET result == is_synced(oid) IN
    IF result.synced /\ result.sales_invoice # 0 THEN
        IF frappe_db_exists_invoice(result.sales_invoice)
           /\ invoices[result.sales_invoice].docstatus = 1
        THEN result
        ELSE [synced |-> FALSE, sales_invoice |-> 0]
    ELSE result

\* OfflineInvoiceSync.create_sync_record(offline_id, sales_invoice): returns
\* the existing record, or inserts one and commits; the row is created with
\* its sales_invoice and synced_at set, the state of a synced reservation
create_sync_record(rows, oid, sales_invoice) ==
    IF GetSyncByOfflineId(oid) # 0 \/ DuplicateEntry(rows, oid) THEN rows
    ELSE Append(rows, [offline_id |-> oid, sales_invoice |-> sales_invoice,
                       status |-> "Synced", synced_at |-> now,
                       modified |-> now, lock |-> 0])

CreateSyncRecord ==
    /\ \E oid \in OfflineIds, n \in DOMAIN invoices :
        syncRows' = create_sync_record(syncRows, oid, n)
    /\ UNCHANGED <<now, invoices, coupon_used, credit_redeemed,
                   stock_allow_negative, req>>
    /\ UNCHANGED <<payVars, extVars>>

\* concurrent clients, with and without offline_id, and create_sync_record
NextRecord ==
    \/ Tick
    \/ \E r \in Requests :
          SubmitInvoiceCall(r, AllOfflineIds, {"none", "OK"}, {"none"},
                            {"P_ON"}, {AvailableQty})
    \/ \E r \in Requests : SubmitInvoiceStep(r)
    \/ CancelInvoice
    \/ CreateSyncRecord

SpecRecord == Init /\ [][NextRecord]_vars

\* --------------------------------------------------------- payment entries
\* payment amounts a client may send, in units of 0.01
Amounts == (0 - 1)..(MaxOutstanding + 2)
ModesOfPayment == {"Cash", "Bogus"}       \* "Bogus" is no Mode of Payment
PaymentLists ==
    UNION {[1..n -> [amount : Amounts, mode_of_payment : ModesOfPayment]] :
             n \in 1..MaxPayments}

NoLimit(amount, outstanding_amount) == FALSE

\* create_payment_entry line 409, add_payment_to_partial_invoice line 823
exceeds_outstanding(amount, outstanding_amount) ==
    amount > outstanding_amount + AMOUNT_TOLERANCE

\* create_payment_entry for the invoice being paid (Sales Invoice 1): raises,
\* or inserts and submits a Payment Entry and commits; the submitted entry
\* reduces the invoice's outstanding amount
create_payment_entry(pes, out, amount, mode_of_payment) ==
    IF \/ amount <= 0
       \/ ~frappe_db_exists_invoice(1)
       \/ invoices[1].docstatus # 1
       \/ exceeds_outstanding(amount, out)
       \/ mode_of_payment \notin {"Cash"}
    THEN [raised |-> TRUE, pes |-> pes, out |-> out]
    ELSE [raised |-> FALSE,
          pes |-> Append(pes, [allocated_amount |-> amount,
                               outstanding_amount |-> out, docstatus |-> 1]),
          out |-> out - amount]

\* add_payment_to_partial_invoice lines 832-856: the loop over the payments
RECURSIVE create_entries(_, _, _)
create_entries(payments, k, st) ==
    IF k > Len(payments) THEN st
    ELSE IF payments[k].amount <= 0
    THEN create_entries(payments, k + 1, st)        \* skipped
    ELSE LET pe == create_payment_entry(st.pes, st.out, payments[k].amount,
                                        payments[k].mode_of_payment) IN
         IF pe.raised THEN [st EXCEPT !.raised = TRUE]
         ELSE create_entries(payments, k + 1,
                             [raised |-> FALSE, pes |-> pe.pes, out |-> pe.out,
                              created |-> Append(st.created, Len(pe.pes))])

\* add_payment_to_partial_invoice lines 858-875: cancel the entries created;
\* a cancel that raises (the entries in fails) is logged and skipped
RECURSIVE cancel_created(_, _, _, _)
cancel_created(created, k, st, fails) ==
    IF k > Len(created) THEN st
    ELSE LET n == created[k] IN
         IF st.pes[n].docstatus = 1 /\ n \notin fails
         THEN cancel_created(created, k + 1,
                             [st EXCEPT !.pes[n].docstatus = 2,
                                        !.out = @ + st.pes[n].allocated_amount],
                             fails)
         ELSE cancel_created(created, k + 1, st, fails)

RECURSIVE SumAmounts(_, _)
SumAmounts(payments, k) ==
    IF k > Len(payments) THEN 0
    ELSE payments[k].amount + SumAmounts(payments, k + 1)

\* add_payment_to_partial_invoice(invoice_name, payments)
AddPaymentToPartialInvoice ==
    /\ \E payments \in PaymentLists,
          fails \in SUBSET ((Len(paymentEntries) + 1)..(Len(paymentEntries) + MaxPayments)) :
        /\ Len(paymentEntries) + Len(payments) <= MaxPaymentEntries
        /\ LET total_payment_amount == SumAmounts(payments, 1) IN
           IF exceeds_outstanding(total_payment_amount, outstanding) THEN
               /\ pay_call' = [state |-> "rejected", created |-> <<>>,
                            total |-> total_payment_amount,
                            outstanding_amount |-> outstanding]
               /\ UNCHANGED <<outstanding, paymentEntries>>
           ELSE
               LET st == create_entries(payments, 1,
                            [raised |-> FALSE, pes |-> paymentEntries,
                             out |-> outstanding, created |-> <<>>]) IN
               IF st.raised THEN
                   LET rb == cancel_created(st.created, 1, st, fails) IN
                   /\ fails \subseteq {st.created[k] : k \in DOMAIN st.created}
                   /\ paymentEntries' = rb.pes
                   /\ outstanding' = rb.out
                   /\ pay_call' = [state |-> "failed", created |-> st.created,
                                total |-> total_payment_amount,
                                outstanding_amount |-> outstanding]
               ELSE
                   /\ fails = {}
                   /\ paymentEntries' = st.pes
                   /\ outstanding' = st.out
                   /\ pay_call' = [state |-> "ok", created |-> st.created,
                                total |-> total_payment_amount,
                                outstanding_amount |-> outstanding]
    /\ UNCHANGED <<invVars, extVars>>

InitPay ==
    /\ now = 0
    /\ syncRows = <<>>
    /\ invoices = <<[docstatus |-> 1, offline_id |-> 0, exists |-> TRUE]>>
    /\ coupon_used = 0
    /\ credit_redeemed = {}
    /\ stock_allow_negative = 0
    /\ req = [r \in Requests |-> IdleReq]
    /\ outstanding \in 0..MaxOutstanding
    /\ paymentEntries = <<>>
    /\ pay_call = [state |-> "none", created |-> <<>>, total |-> 0,
                   outstanding_amount |-> 0]
    /\ InitExt

NextPay ==
    \/ AddPaymentToPartialInvoice
    \/ CancelInvoice

SpecPay == InitPay /\ [][NextPay]_vars

\* ------------------------------------------------- validate_return_items
\* item codes sold on invoices, and one that the original invoice never has
ItemCodes == {"A", "B"}
OtherItemCode == "C"

abs(x) == IF x < 0 THEN 0 - x ELSE x

\* item tables of at most MaxLines lines, 1..MaxQty units each; sign = -1 for
\* the lines of returns, which carry negative quantities
ItemTables(codes, sign) ==
    UNION {[1..n -> [item_code : codes, qty : {sign * q : q \in 1..MaxQty}]] :
              n \in 1..MaxLines}

\* return invoices found by return_against; drafts are among them
ReturnInvoices == [docstatus : {0, 1}, items : ItemTables(ItemCodes, 0 - 1)]
ReturnedLists == UNION {[1..n -> ReturnInvoices] : n \in 0..MaxReturns}

RECURSIVE SumQty(_, _)
\* sum of item.qty over the lines of item_code c
SumQty(items, c) ==
    IF items = <<>> THEN 0
    ELSE (IF items[1].item_code = c THEN items[1].qty ELSE 0)
         + SumQty(Tail(items), c)

RECURSIVE SumAbsQty(_, _)
\* sum of abs(item.qty) over the lines of item_code c
SumAbsQty(items, c) ==
    IF items = <<>> THEN 0
    ELSE (IF items[1].item_code = c THEN abs(items[1].qty) ELSE 0)
         + SumAbsQty(Tail(items), c)

RECURSIVE ReturnedQty(_, _)
\* quantity of c on the return invoices with docstatus 1 (the filter of
\* frappe.get_all)
ReturnedQty(returned, c) ==
    IF returned = <<>> THEN 0
    ELSE (IF returned[1].docstatus = 1
          THEN SumAbsQty(returned[1].items, c) ELSE 0)
         + ReturnedQty(Tail(returned), c)

\* the keys of original_item_qty: the item codes of the original invoice
OriginalItemCodes(original) == {original[i].item_code : i \in DOMAIN original}

\* original_item_qty[c] after the loop over the returned invoices
original_item_qty(original, returned, c) ==
    SumQty(original, c) - ReturnedQty(returned, c)

\* validate_return_items: "valid" or "invalid"; every line of return_items
\* is compared on its own, lines of unknown item codes are skipped
validate_return_items(original, returned, return_items) ==
    IF \E i \in DOMAIN return_items :
          /\ return_items[i].item_code \in OriginalItemCodes(original)
          /\ abs(return_items[i].qty)
               > original_item_qty(original, returned, return_items[i].item_code)
    THEN "invalid" ELSE "valid"

\* the documents in the database and the return request of a client
ReturnData ==
    [original : ItemTables(ItemCodes, 1), returned : ReturnedLists,
     return_items : ItemTables(ItemCodes \cup {OtherItemCode}, 0 - 1)]

\* a client asks whether the return is allowed
ValidateReturnItems ==
    /\ return_result = "none"
    /\ return_result' = validate_return_items(return_data.original,
                                              return_data.returned,
                                              return_data.return_items)
    /\ UNCHANGED <<invVars, payVars, pos_settings, settings_call, return_data,
                   delete_call, dedup_call>>

InitReturn ==
    /\ now = 0
    /\ syncRows = <<>>
    /\ invoices = <<>>
    /\ coupon_used = 0
    /\ credit_redeemed = {}
    /\ stock_allow_negative = 0
    /\ req = [r \in Requests |-> IdleReq]
    /\ outstanding = 0
    /\ paymentEntries = <<>>
    /\ pay_call = [state |-> "none", created |-> <<>>, total |-> 0,
                   outstanding_amount |-> 0]
    /\ pos_settings = [p \in Profiles |->
                         [allow_negative_stock |-> IF p = "P_NEG" THEN 1 ELSE 0,
                          enabled |-> 1]]
    /\ settings_call = NoSettingsCall
    /\ return_data \in ReturnData
    /\ return_result = "none"
    /\ delete_call = NoDeleteCall
    /\ dedup_call = NoDedupCall

NextReturn == ValidateReturnItems

SpecReturn == InitReturn /\ [][NextReturn]_vars


\* ------------------------------------- POSSettings.sync_negative_stock_setting
\* a count that never finds another POS Settings (used to show that the
\* count of lines 54-61 decides)
no_other_count(name) == 0

\* frappe.db.count("POS Settings", {allow_negative_stock: 1, enabled: 1,
\* name != self.name})
other_enabled_count(name) ==
    Cardinality({n \in Profiles \ {name} :
                    /\ pos_settings[n].allow_negative_stock = 1
                    /\ pos_settings[n].enabled = 1})

\* sync_negative_stock_setting of the document name whose field
\* allow_negative_stock is allow: the Stock Settings value after it
sync_negative_stock_setting(name, allow) ==
    LET current_stock_setting == cint(PyOr(stock_allow_negative, 0)) IN
    IF cint(allow) # 0
    THEN IF current_stock_setting = 0 THEN 1 ELSE stock_allow_negative
    ELSE IF current_stock_setting # 0
         THEN IF other_enabled_count(name) = 0 THEN 0
              ELSE stock_allow_negative
         ELSE stock_allow_negative

\* a POS Settings document is saved: the document is written, then on_update
\* runs sync_negative_stock_setting
SavePOSSettings ==
    /\ \E name \in Profiles, allow \in {0, 1}, enabled \in {0, 1} :
        /\ pos_settings' = [pos_settings EXCEPT ![name] =
                               [allow_negative_stock |-> allow,
                                enabled |-> enabled]]
        /\ stock_allow_negative' = sync_negative_stock_setting(name, allow)
        /\ settings_call' = [name |-> name, allow_negative_stock |-> allow,
                             stock_before |-> stock_allow_negative]
    /\ UNCHANGED <<now, syncRows, invoices, coupon_used, credit_redeemed, req>>
    /\ UNCHANGED <<payVars, return_data, return_result, delete_call,
                   dedup_call>>

NextSettings == SavePOSSettings

SpecSettings == InitSeq /\ [][NextSettings]_vars

\* ---------------------------------------------------------- delete_invoice
\* a check that lets every docstatus pass (used to show that the check of
\* line 1123 decides)
any_docstatus(n) == TRUE

\* line 1123: frappe.db.get_value(doctype, invoice, "docstatus") is 0
is_draft(n) == invoices[n].docstatus = 0

\* delete_invoice(invoice): outcome and the Sales Invoice table after it
delete_invoice(n) ==
    IF ~frappe_db_exists_invoice(n)
    THEN [outcome |-> "does not exist", table |-> invoices]
    ELSE IF ~is_draft(n)
    THEN [outcome |-> "cannot delete", table |-> invoices]
    ELSE [outcome |-> "deleted",
          table |-> [invoices EXCEPT ![n].exists = FALSE]]

\* a client calls delete_invoice with the name of some invoice, also one
\* that was deleted before
DeleteInvoice ==
    /\ \E n \in DOMAIN invoices :
        LET d == delete_invoice(n) IN
        /\ invoices' = d.table
        /\ delete_call' = [invoice |-> n, docstatus |-> invoices[n].docstatus,
                           outcome |-> d.outcome]
    /\ UNCHANGED <<now, syncRows, coupon_used, credit_redeemed,
                   stock_allow_negative, req>>
    /\ UNCHANGED <<payVars, pos_settings, settings_call, return_data,
                   return_result, dedup_call>>

\* one client at a time: drafts are created, submitted, cancelled, deleted
NextDelete ==
    \/ /\ NoRequestInFlight
       /\ SubmitInvoiceCall(1, AllOfflineIds, {"none"}, {"none"}, {"P_ON"}, Qtys)
    \/ SubmitInvoiceStep(1)
    \/ NoRequestInFlight /\ UpdateInvoice
    \/ NoRequestInFlight /\ CancelInvoice
    \/ NoRequestInFlight /\ DeleteInvoice

SpecDelete == Init /\ [][NextDelete]_vars

\* ================================================================== claims
\* Sales Invoices submitted (docstatus 1) for an offline_id
SubmittedFor(o) == {n \in DOMAIN invoices :
                      invoices[n].docstatus = 1 /\ invoices[n].offline_id = o}

\* C1: for every offline_id, however the submit_invoice calls that carry it
\* are repeated or interleaved, at most one Sales Invoice is submitted for it.
C1_AtMostOneInvoicePerOfflineId ==
    \A o \in OfflineIds : Cardinality(SubmittedFor(o)) <= 1


\* C2: at every moment there is at most one Offline Invoice Sync row for a
\* given offline_id, also when two first-time submit_invoice calls with the
\* same offline_id run concurrently.
C2_OneSyncRowPerOfflineId ==
    \A o \in OfflineIds : Cardinality(SyncRowsOf(o)) <= 1

\* two first-time calls raced: one inserted the row, the other got
\* DuplicateEntryError and went back to the check
C2_Witness ==
    \E r1, r2 \in Requests :
        /\ r1 # r2
        /\ req[r1].duplicate_entry
        /\ req[r2].offline_id = req[r1].offline_id
        /\ req[r2].sync_record_name # 0
        /\ Cardinality(SyncRowsOf(req[r1].offline_id)) = 1

\* C3: the status of a sync row changes only Pending -> Synced,
\* Pending -> Failed, or back to Pending; never directly Synced -> Failed or
\* Failed -> Synced.
StatusStepAllowed(old, new) ==
    \/ new = old
    \/ new = "Pending"
    \/ old = "Pending" /\ new \in {"Synced", "Failed"}

C3_StatusCycle ==
    [][\A i \in DOMAIN syncRows :
          StatusStepAllowed(syncRows[i].status, syncRows'[i].status)]_vars


\* C4: in submit_invoice the secondary side effects (credit redemption, the
\* coupon usage counter) are performed only after the invoice has been saved
\* and submitted.
C4_SideEffectsAfterSubmit ==
    \A r \in Requests :
        (req[r].coupon_done \/ req[r].credit_done) => req[r].invoice_submitted

\* C5: a failure of a secondary side effect never makes submit_invoice fail
\* and never leaves the invoice unsubmitted: a failed credit redemption
\* leaves the request at its return statement with the invoice submitted, and
\* after a failed coupon update the request fails only if a primary step
\* (stock validation, save/submit) fails.
C5_SideEffectFailureTolerated ==
    \A r \in Requests :
        /\ req[r].credit_failed =>
              /\ req[r].pc = "return"
              /\ req[r].invoice_submitted
              /\ invoices[req[r].invoice_name].docstatus = 1
        /\ req[r].coupon_failed =>
              /\ req[r].pc \in {"stock", "submit", "complete", "credit",
                                "return", "cleanup"}
              /\ req[r].error \in {"none", "stock", "submit"}
              /\ req[r].pc = "return" => invoices[req[r].invoice_name].docstatus = 1

\* both side effects failed and the call is about to return the submitted
\* invoice
C5_Witness ==
    \E r \in Requests :
        /\ req[r].pc = "return"
        /\ req[r].coupon_failed
        /\ req[r].credit_failed
        /\ invoices[req[r].invoice_name].docstatus = 1

\* C6: when a stock line requests more than the available quantity (and
\* negative stock is not allowed by Stock Settings or POS Settings), the sale
\* is blocked if posa_block_sale_beyond_available_qty is on and allowed if it
\* is off.
C6_BlockToggleDecides ==
    \A r \in Requests :
        ( /\ req[r].qty > AvailableQty
          /\ req[r].pos_profile \in Profiles
          /\ stock_allow_negative = 0
          /\ pos_settings_allow_negative_stock(req[r].pos_profile) = 0 )
        => /\ posa_block_sale_beyond_available_qty(req[r].pos_profile) # 0
                => req[r].pc \notin {"submit", "complete", "credit", "return"}
           /\ posa_block_sale_beyond_available_qty(req[r].pos_profile) = 0
                => ~(req[r].pc = "cleanup" /\ req[r].error = "stock")

\* C7: update_invoice always persists the invoice as a draft: every Sales
\* Invoice is created with docstatus 0, and an invoice becomes submitted only
\* in the submit step of submit_invoice, never by update_invoice.
C7_UpdateInvoiceSavesDraft ==
    [][\A n \in DOMAIN invoices' :
          /\ n \notin DOMAIN invoices => invoices'[n].docstatus = 0
          /\ ( /\ n \in DOMAIN invoices
               /\ invoices[n].docstatus # 1
               /\ invoices'[n].docstatus = 1 )
             => \E r \in Requests : /\ req[r].pc = "submit"
                                    /\ req[r].invoice_name = n
                                    /\ req'[r].pc = "complete"]_vars

\* update_invoice has stored a draft and no submit_invoice call is running
C7_Witness ==
    /\ NoRequestInFlight
    /\ \E n \in DOMAIN invoices : invoices[n].docstatus = 0
    /\ \E n \in DOMAIN invoices : invoices[n].docstatus = 1

\* C8: check_offline_invoice_synced(offline_id) returns synced = true only
\* if the Sales Invoice recorded for the offline_id exists and is submitted;
\* with no row, or a row that is Pending or Failed, it returns synced = false.
C8_SyncedOnlyIfSubmitted ==
    \A o \in OfflineIds :
        LET res == check_offline_invoice_synced(o)
            i == GetSyncByOfflineId(o) IN
        /\ res.synced => /\ i # 0
                         /\ frappe_db_exists_invoice(syncRows[i].sales_invoice)
                         /\ invoices[syncRows[i].sales_invoice].docstatus = 1
        /\ (i = 0 \/ (i # 0 /\ syncRows[i].status \in {"Pending", "Failed"}))
              => ~res.synced


\* C9: add_payment_to_partial_invoice is transactional: after a call that
\* failed while creating a payment, none of the Payment Entries created by
\* that call remains submitted.
C9_FailedCallLeavesNoPayment ==
    pay_call.state = "failed" =>
        \A k \in DOMAIN pay_call.created :
            paymentEntries[pay_call.created[k]].docstatus # 1

C11_ValidOnlyWithinRemaining ==
    return_result = "valid" =>
        \A c \in {return_data.return_items[i].item_code :
                     i \in DOMAIN return_data.return_items} :
            SumAbsQty(return_data.return_items, c)
              <= SumQty(return_data.original, c)
                   - ReturnedQty(return_data.returned, c)

\* the last save disabled allow_negative_stock on a POS Settings document
\* and with it the global Stock Settings value
DisabledGlobally ==
    /\ settings_call.name # ""
    /\ settings_call.allow_negative_stock = 0
    /\ settings_call.stock_before = 1
    /\ stock_allow_negative = 0

C13_OnlyDraftsDeleted ==
    (delete_call.invoice # 0 /\ delete_call.docstatus # 0) =>
        /\ delete_call.outcome # "deleted"
        /\ delete_call.outcome = "cannot delete"
        /\ invoices[delete_call.invoice].exists

\* delete_invoice was refused for a submitted invoice, which is still there,
\* after a draft had been deleted
C13_Witness ==
    /\ delete_call.invoice # 0
    /\ delete_call.docstatus = 1
    /\ delete_call.outcome = "cannot delete"
    /\ invoices[delete_call.invoice].exists
    /\ \E n \in DOMAIN invoices : invoices[n].exists = FALSE

\* request r takes the step of its deduplication check
DedupStepOf(r) == req[r].pc = "dedup" /\ req'[r] # req[r]

\* the sync row that the deduplication check of request r reads, 0 for none
RowRead(r) ==
    IF req[r].offline_id = 0 THEN 0 ELSE GetSyncByOfflineId(req[r].offline_id)

\* the fields of the sync rows, the row locks left aside
RowFields(rows) ==
    [i \in DOMAIN rows |-> [rows[i] EXCEPT !.lock = 0]]

\* C14: if the sync row for the offline_id is Pending and was last modified
\* at most 5 minutes ago, a submit_invoice call with that offline_id is
\* rejected with SYNC_IN_PROGRESS: the request ends there, and no invoice
\* is created.
C14_ActivePendingRejected ==
    [][\A r \in Requests :
          (/\ DedupStepOf(r)
           /\ RowRead(r) # 0
           /\ syncRows[RowRead(r)].status = "Pending"
           /\ syncRows[RowRead(r)].modified # None
           /\ now - syncRows[RowRead(r)].modified <= PENDING_TIMEOUT_MINUTES)
          => /\ dedup_call'.request = r
             /\ dedup_call'.next = "SYNC_IN_PROGRESS"
             /\ req'[r].pc = "idle"
             /\ invoices' = invoices
             /\ RowFields(syncRows') = RowFields(syncRows)]_vars

\* a call was rejected with SYNC_IN_PROGRESS on a Pending row modified
\* exactly PENDING_TIMEOUT_MINUTES before
C14_Witness ==
    /\ dedup_call.next = "SYNC_IN_PROGRESS"
    /\ dedup_call.status = "Pending"
    /\ ~dedup_call.expired
    /\ now - syncRows[dedup_call.row].modified = PENDING_TIMEOUT_MINUTES
    /\ req[dedup_call.request].pc = "idle"

\* C15: if the sync row is Pending and was last modified more than 5
\* minutes ago, a submit_invoice retry is accepted: it reuses that same row
\* (status Pending, synced_at cleared, no row added) and goes on to get or
\* create the invoice.
C15_StalePendingReused ==
    [][\A r \in Requests :
          (/\ DedupStepOf(r)
           /\ RowRead(r) # 0
           /\ syncRows[RowRead(r)].status = "Pending"
           /\ syncRows[RowRead(r)].modified # None
           /\ now - syncRows[RowRead(r)].modified > PENDING_TIMEOUT_MINUTES)
          => /\ dedup_call'.request = r
             /\ dedup_call'.next = "draft"
             /\ req'[r].pc = "draft"
             /\ req'[r].sync_record_name = RowRead(r)
             /\ Len(syncRows') = Len(syncRows)
             /\ syncRows'[RowRead(r)].offline_id = req[r].offline_id
             /\ syncRows'[RowRead(r)].status = "Pending"
             /\ syncRows'[RowRead(r)].synced_at = None]_vars

\* a retry has taken over a stale Pending row and has created its invoice
C15_Witness ==
    /\ dedup_call.status = "Pending"
    /\ dedup_call.expired
    /\ dedup_call.next = "draft"
    /\ req[dedup_call.request].sync_record_name = dedup_call.row
    /\ req[dedup_call.request].invoice_name # 0
    /\ syncRows[dedup_call.row].status = "Pending"
    /\ syncRows[dedup_call.row].synced_at = None

\* C16: if the sync row is Synced and its Sales Invoice exists with
\* docstatus 1, submit_invoice returns the details of that invoice, flagged
\* duplicate_prevented, and changes nothing: no invoice is created or
\* updated, the coupon counter is not incremented and the sync row is not
\* modified.
C16_SyncedReturnsExisting ==
    [][\A r \in Requests :
          (/\ DedupStepOf(r)
           /\ RowRead(r) # 0
           /\ syncRows[RowRead(r)].status = "Synced"
           /\ syncRows[RowRead(r)].sales_invoice \in DOMAIN invoices
           /\ invoices[syncRows[RowRead(r)].sales_invoice].exists
           /\ invoices[syncRows[RowRead(r)].sales_invoice].docstatus = 1)
          => /\ dedup_call'.request = r
             /\ dedup_call'.next = "already_synced"
             /\ dedup_call'.invoice = syncRows[RowRead(r)].sales_invoice
             /\ req'[r].pc = "idle"
             /\ invoices' = invoices
             /\ coupon_used' = coupon_used
             /\ credit_redeemed' = credit_redeemed
             /\ RowFields(syncRows') = RowFields(syncRows)]_vars

\* a retry that asked for the coupon was answered with the invoice
\* submitted before, and the coupon was counted once
C16_Witness ==
    /\ dedup_call.next = "already_synced"
    /\ dedup_call.invoice # 0
    /\ invoices[dedup_call.invoice].docstatus = 1
    /\ syncRows[dedup_call.row].status = "Synced"
    /\ req[dedup_call.request].pc = "idle"
    /\ coupon_used = 1

=============================================================================
